---- MODULE Spec2Model ----
(***************************************************************************)
(* Model of src/gradle.ts: the helpers that shell out to the gradle CLI,   *)
(* capture its output and extract the version, the dependency listing,    *)
(* the build environment and single properties.                          *)
(*                                                                         *)
(* Text the code pattern-matches (captured stdout, the version text) is a  *)
(* sequence of one-character strings.  Text the code only assembles (the   *)
(* command, its arguments, messages) is a TLA+ string or a tuple of the    *)
(* pieces of the template literal.                                         *)
(***************************************************************************)
EXTENDS Integers, Sequences, FiniteSets, TLC

VARIABLES pc, op, pending, execLog, proc, version, supported, outcome,
          diagnostics, prevSupported

vars == <<pc, op, pending, execLog, proc, version, supported, outcome,
          diagnostics, prevSupported>>

(***************************************************************************)
(* Bounds of the explored inputs.                                          *)
(***************************************************************************)
MaxVersionLines == 3
MaxPropertyLines == 3

(***************************************************************************)
(* Optional values: `undefined` and a present value.                       *)
(***************************************************************************)
Undefined == [defined |-> FALSE]
Val(x) == [defined |-> TRUE, value |-> x]

(***************************************************************************)
(* Character-level helpers.                                                *)
(***************************************************************************)
\* s has the literal lit at position p
HasAt(s, p, lit) ==
  /\ p >= 1
  /\ p + Len(lit) - 1 <= Len(s)
  /\ \A k \in 1..Len(lit) : s[p + k - 1] = lit[k]

\* the characters the regular-expression dot does not match
LineTerminators == {"\n", "\r"}

\* last position of the greedy run of dot-characters starting at p
\* (p - 1 when the run is empty)
DotRunEnd(s, p) ==
  CHOOSE q \in (p - 1)..Len(s) :
    /\ \A k \in p..q : s[k] \notin LineTerminators
    /\ (q = Len(s) \/ s[q + 1] \in LineTerminators)

Min(S) == CHOOSE m \in S : \A n \in S : m <= n

\* String.prototype.split with a one-character separator
RECURSIVE SplitFrom(_, _, _)
SplitFrom(s, sep, from) ==
  LET hits == {k \in from..Len(s) : s[k] = sep}
  IN  IF hits = {} THEN <<SubSeq(s, from, Len(s))>>
      ELSE <<SubSeq(s, from, Min(hits) - 1)>> \o SplitFrom(s, sep, Min(hits) + 1)

Split(s, sep) == SplitFrom(s, sep, 1)

RECURSIVE Join(_)
Join(lines) ==
  IF lines = <<>> THEN <<>>
  ELSE IF Len(lines) = 1 THEN lines[1]
  ELSE lines[1] \o <<"\n">> \o Join(Tail(lines))

(***************************************************************************)
(* retrieveGradleCLI and verifyModule.                                     *)
(***************************************************************************)
retrieveGradleCLI(useGradlew) == IF useGradlew THEN "./gradlew" ELSE "gradle"

verifyModuleKeepsRoot(module) == module

verifyModule(module) == IF module = ":" THEN "" ELSE module

(***************************************************************************)
(* fetchGradleVersion: output.match(/[\\S\\s]*?-\n(Gradle )(.+)\n-/).      *)
(* In the regular-expression literal the class [\\S\\s] holds a backslash, *)
(* S and s.  The match starts at the leftmost position i from which a      *)
(* (lazy, so shortest) run of class characters leads to the literal        *)
(* "-\nGradle ", a non-empty greedy run of dot-characters and "\n-".       *)
(***************************************************************************)
VersionPrefixClass == {"\\", "S", "s"}

BannerOpen == <<"-", "\n", "G", "r", "a", "d", "l", "e", " ">>
BannerClose == <<"\n", "-">>

VersionBodyAtNoClose(output, p) ==
  /\ HasAt(output, p, BannerOpen)
  /\ LET v == p + Len(BannerOpen)
     IN  DotRunEnd(output, v) >= v

VersionBodyAt(output, p) ==
  /\ HasAt(output, p, BannerOpen)
  /\ LET v == p + Len(BannerOpen)
         e == DotRunEnd(output, v)
     IN  e >= v /\ HasAt(output, e + 1, BannerClose)

\* the second capture group of the match, or Undefined for a null match
MatchVersion(output) ==
  LET bodies == {p \in 1..Len(output) : VersionBodyAt(output, p)}
      reach(i, p) == i <= p /\ \A k \in i..(p - 1) : output[k] \in VersionPrefixClass
      starts == {i \in 1..Len(output) : \E p \in bodies : reach(i, p)}
  IN  IF starts = {} THEN Undefined
      ELSE LET i == Min(starts)
               p == Min({q \in bodies : reach(i, q)})
               v == p + Len(BannerOpen)
           IN  Val(SubSeq(output, v, DotRunEnd(output, v)))

(***************************************************************************)
(* semver.coerce(version): the leftmost match of                           *)
(*   (^|[^\d])(\d{1,16})(?:\.(\d{1,16}))?(?:\.(\d{1,16}))?(?:$|[^\d])      *)
(* A component is always a whole run of digits (it must be followed by a   *)
(* dot, a non-digit or the end), so a run longer than the component length *)
(* never matches.  Missing minor and patch default to 0.                   *)
(***************************************************************************)
MAX_SAFE_COMPONENT_LENGTH == 16

Digits == {"0", "1", "2", "3", "4", "5", "6", "7", "8", "9"}

DigitValue(c) ==
  CASE c = "0" -> 0 [] c = "1" -> 1 [] c = "2" -> 2 [] c = "3" -> 3
    [] c = "4" -> 4 [] c = "5" -> 5 [] c = "6" -> 6 [] c = "7" -> 7
    [] c = "8" -> 8 [] c = "9" -> 9

\* last position of the run of digits starting at d
DigitRunEnd(s, d) ==
  CHOOSE q \in d..Len(s) :
    /\ \A k \in d..q : s[k] \in Digits
    /\ (q = Len(s) \/ s[q + 1] \notin Digits)

RECURSIVE Number(_, _, _)
Number(s, from, to) ==
  IF to < from THEN 0
  ELSE 10 * Number(s, from, to - 1) + DigitValue(s[to])

\* a run of 1..16 digits that starts at d
ComponentAt(s, d) ==
  /\ d >= 1 /\ d <= Len(s)
  /\ s[d] \in Digits
  /\ DigitRunEnd(s, d) - d + 1 <= MAX_SAFE_COMPONENT_LENGTH

\* the optional group (?:\.(\d{1,16}))? tried after position e
DotComponentAfter(s, e) ==
  e + 1 <= Len(s) /\ s[e + 1] = "." /\ ComponentAt(s, e + 2)

coerce(v) ==
  LET majors == {d \in 1..Len(v) :
                   (d = 1 \/ v[d - 1] \notin Digits) /\ ComponentAt(v, d)}
  IN  IF majors = {} THEN Undefined
      ELSE LET d  == Min(majors)
               e1 == DigitRunEnd(v, d)
               hasMinor == DotComponentAfter(v, e1)
               e2 == IF hasMinor THEN DigitRunEnd(v, e1 + 2) ELSE e1
               hasPatch == hasMinor /\ DotComponentAfter(v, e2)
               e3 == IF hasPatch THEN DigitRunEnd(v, e2 + 2) ELSE e2
           IN  Val(<<Number(v, d, e1),
                     IF hasMinor THEN Number(v, e1 + 2, e2) ELSE 0,
                     IF hasPatch THEN Number(v, e2 + 2, e3) ELSE 0>>)

(***************************************************************************)
(* semver.satisfies(semverVersion, '>=7.5.0'): SemVer.compareMain compares *)
(* major, then minor, then patch numerically; the range holds when the     *)
(* comparison is not negative.                                             *)
(***************************************************************************)
SinglePropertyMinimum == <<7, 5, 0>>

compareIdentifiers(a, b) == IF a = b THEN 0 ELSE IF a < b THEN -1 ELSE 1

compareMain(a, b) ==
  IF compareIdentifiers(a[1], b[1]) # 0 THEN compareIdentifiers(a[1], b[1])
  ELSE IF compareIdentifiers(a[2], b[2]) # 0 THEN compareIdentifiers(a[2], b[2])
  ELSE compareIdentifiers(a[3], b[3])

satisfiesStrictlyGreater(semverVersion) ==
  compareMain(semverVersion, SinglePropertyMinimum) > 0

satisfies(semverVersion) ==
  compareMain(semverVersion, SinglePropertyMinimum) >= 0

(***************************************************************************)
(* retrieveGradleProperty: the two patterns built from `${property}: `.    *)
(***************************************************************************)
PropertyChars(property) ==
  CASE property = "name" -> <<"n", "a", "m", "e">>
    [] property = "buildFile" -> <<"b", "u", "i", "l", "d", "F", "i", "l", "e">>

PropertyLabel(property) == PropertyChars(property) \o <<":", " ">>

LabelValueAtAllowsEmpty(s, p, label) == HasAt(s, p, label)

\* label at p followed by a non-empty run of dot-characters
LabelValueAt(s, p, label) ==
  /\ HasAt(s, p, label)
  /\ DotRunEnd(s, p + Len(label)) >= p + Len(label)

\* output.match(new RegExp(`[\\S\\s]*?(${property}: )(.+)\n`)): the lazy
\* prefix stops at the first label whose value run is closed by "\n"
MatchSingle(output, property) ==
  LET label == PropertyLabel(property)
      hits == {p \in 1..Len(output) :
                 /\ LabelValueAt(output, p, label)
                 /\ HasAt(output, DotRunEnd(output, p + Len(label)) + 1, <<"\n">>)}
  IN  IF hits = {} THEN Undefined
      ELSE LET v == Min(hits) + Len(label)
           IN  Val(SubSeq(output, v, DotRunEnd(output, v)))

\* it.match(new RegExp(`[\\S\\s]*?(${property}: )(.+)`)) on one line
MatchLine(line, property) ==
  LET label == PropertyLabel(property)
      hits == {p \in 1..Len(line) : LabelValueAt(line, p, label)}
  IN  IF hits = {} THEN Undefined
      ELSE LET v == Min(hits) + Len(label)
           IN  Val(SubSeq(line, v, DotRunEnd(line, v)))

\* output.split('\n').map(...).find(it => it !== null), taking the last hit
MatchListingLast(output, property) ==
  LET lines == Split(output, "\n")
      hits == {k \in 1..Len(lines) : MatchLine(lines[k], property).defined}
  IN  IF hits = {} THEN Undefined
      ELSE MatchLine(lines[CHOOSE k \in hits : \A j \in hits : j <= k], property)

\* output.split('\n').map(...).find(it => it !== null)
MatchListing(output, property) ==
  LET lines == Split(output, "\n")
      hits == {k \in 1..Len(lines) : MatchLine(lines[k], property).defined}
  IN  IF hits = {} THEN Undefined
      ELSE MatchLine(lines[Min(hits)], property)

(***************************************************************************)
(* Inputs: the arguments of the calls and what the gradle process prints.  *)
(***************************************************************************)
Paths == {".", "sub"}
Modules == {":", "app"}
Configurations == {Undefined, Val(""), Val("runtimeClasspath")}
ExitCodes == {0, 1}

\* version texts a banner may carry
VersionTexts ==
  { <<"7", ".", "4", ".", "2">>,
    <<"7", ".", "5", ".", "0">>,
    <<"8", ".", "0">>,
    <<"1", "0", ".", "1">>,
    <<"7", ".", "5", ".", "0", "-", "r", "c", "-", "1">>,
    <<"n", "o", "t", "-", "a", "-", "v", "e", "r", "s", "i", "o", "n">> }

GradleWord == <<"G", "r", "a", "d", "l", "e", " ">>
DashLine == <<"-", "-", "-">>

\* the lines `gradle --version` output is assembled from
VersionLines == {DashLine} \cup {GradleWord \o v : v \in VersionTexts}

\* the lines `gradle properties` output is assembled from
PropertyLines ==
  { <<"n", "a", "m", "e", ":", " ", "r">>,
    <<"p", ".", "n", "a", "m", "e", ":", " ", "d">>,
    <<"b", "u", "i", "l", "d", "F", "i", "l", "e", ":", " ", "b">>,
    <<"n", "a", "m", "e", ":", " ">> }

\* every text of at most n lines of the set, with and without a final newline
Outputs(lineSet, n) ==
  {Join(ls) \o tail :
     ls \in UNION {[1..k -> lineSet] : k \in 0..n},
     tail \in {<<>>, <<"\n">>}}

\* what a process that ends with exitCode has printed; a failing process is
\* explored with at most one line of output, which the code never reads
VersionOutputs(exitCode) ==
  Outputs(VersionLines, IF exitCode = 0 THEN MaxVersionLines ELSE 1)
PropertyOutputs(exitCode) ==
  Outputs(PropertyLines, IF exitCode = 0 THEN MaxPropertyLines ELSE 1)
ListingOutputs == {<<>>, <<"a", "\n">>, <<"+", " ", "x", "\n", "b">>}

(***************************************************************************)
(* The process-execution and diagnostics collaborators.                    *)
(***************************************************************************)
\* exec.getExecOutput(command, args, {cwd, ...})
Invocation(command, args, cwd) == [command |-> command, args |-> args, cwd |-> cwd]

IssueTwice(log, invocation) == Append(Append(log, invocation), invocation)

\* the invocations handed to exec.getExecOutput during the current call
Issue(log, invocation) == Append(log, invocation)

ExitFailedNever(exitCode) == FALSE

\* `exitCode !== 0`
ExitFailed(exitCode) == exitCode # 0

\* what getExecOutput resolves to for the invocation the call is suspended on
Result(exitCode, stdout) ==
  [exitCode |-> exitCode, stdout |-> stdout, invocation |-> pending.value]

Diagnostic(level, message) == [level |-> level, message |-> message]

Return(value) == [kind |-> "return", value |-> value]
Throw(message) == [kind |-> "throw", message |-> message]
NoOutcome == [kind |-> "none"]

PropertyOps == {"retrieveGradleBuildPath", "retrieveGradleProjectName"}

(***************************************************************************)
(* Command lines.                                                          *)
(***************************************************************************)
DependenciesArgsEmptyConfiguration(module, configuration) ==
  IF configuration.defined
  THEN <<"--console", "plain", module \o ":dependencies",
         "--configuration", configuration.value>>
  ELSE <<"--console", "plain", module \o ":dependencies">>

DependenciesArgs(module, configuration) ==
  IF configuration.defined /\ configuration.value # ""
  THEN <<"--console", "plain", module \o ":dependencies",
         "--configuration", configuration.value>>
  ELSE <<"--console", "plain", module \o ":dependencies">>

PropertiesArgsAlwaysSingle(module, singlePropertySupported, property) ==
  <<module \o ":properties", "-q", "--property", property>>

PropertiesArgs(module, singlePropertySupported, property) ==
  IF singlePropertySupported
  THEN <<module \o ":properties", "-q", "--property", property>>
  ELSE <<module \o ":properties", "-q">>

(***************************************************************************)
(* State after construction: nothing has been called.                      *)
(***************************************************************************)
Init ==
  /\ pc = "idle"
  /\ op = [name |-> "none"]
  /\ pending = Undefined
  /\ execLog = <<>>
  /\ proc = Undefined
  /\ version = Undefined
  /\ supported = Undefined
  /\ outcome = NoOutcome
  /\ diagnostics = <<>>
  /\ prevSupported = Undefined

\* a call starts: fresh locals, the first (or only) process is spawned and
\* the caller is suspended on it
Begin(call, invocation, await) ==
  /\ pc = "idle"
  /\ pc' = await
  /\ op' = call
  /\ pending' = Val(invocation)
  /\ execLog' = Issue(<<>>, invocation)
  /\ UNCHANGED <<proc, version, supported, outcome, diagnostics>>
  /\ UNCHANGED prevSupported

VersionInvocation(useGradlew, gradleProjectPath) ==
  Invocation(retrieveGradleCLI(useGradlew), <<"--version">>, gradleProjectPath)

singlePropertySupport ==
  \E useGradlew \in BOOLEAN, gradleProjectPath \in Paths :
    Begin([name |-> "singlePropertySupport", useGradlew |-> useGradlew,
           gradleProjectPath |-> gradleProjectPath],
          VersionInvocation(useGradlew, gradleProjectPath), "awaitVersion")

retrieveGradleDependencies ==
  \E useGradlew \in BOOLEAN, gradleProjectPath \in Paths,
     gradleBuildModule \in Modules, gradleBuildConfiguration \in Configurations :
    Begin([name |-> "retrieveGradleDependencies", useGradlew |-> useGradlew,
           gradleProjectPath |-> gradleProjectPath,
           gradleBuildModule |-> gradleBuildModule,
           gradleBuildConfiguration |-> gradleBuildConfiguration],
          Invocation(retrieveGradleCLI(useGradlew),
                     DependenciesArgs(verifyModule(gradleBuildModule),
                                      gradleBuildConfiguration),
                     gradleProjectPath),
          "awaitDependencies")

retrieveGradleBuildEnvironment ==
  \E useGradlew \in BOOLEAN, gradleProjectPath \in Paths :
    Begin([name |-> "retrieveGradleBuildEnvironment", useGradlew |-> useGradlew,
           gradleProjectPath |-> gradleProjectPath],
          Invocation(retrieveGradleCLI(useGradlew),
                     <<"--console", "plain", ":buildEnvironment">>,
                     gradleProjectPath),
          "awaitBuildEnvironment")

\* retrieveGradleProperty up to its first await, inside singlePropertySupport
retrieveGradleProperty(name, useGradlew, gradleProjectPath, gradleBuildModule, property) ==
  Begin([name |-> name, useGradlew |-> useGradlew,
         gradleProjectPath |-> gradleProjectPath,
         gradleBuildModule |-> gradleBuildModule, property |-> property],
        VersionInvocation(useGradlew, gradleProjectPath), "awaitVersion")

retrieveGradleBuildPath ==
  \E useGradlew \in BOOLEAN, gradleProjectPath \in Paths, gradleBuildModule \in Modules :
    retrieveGradleProperty("retrieveGradleBuildPath", useGradlew, gradleProjectPath,
                           gradleBuildModule, "buildFile")

retrieveGradleProjectName ==
  \E useGradlew \in BOOLEAN, gradleProjectPath \in Paths :
    retrieveGradleProperty("retrieveGradleProjectName", useGradlew, gradleProjectPath,
                           ":", "name")

(***************************************************************************)
(* Continuations: the awaited process terminates and the suspended call    *)
(* runs on to its next await or to its end.                                *)
(***************************************************************************)
\* the call ends, by a return or a throw
Finish(result, out, said, ver, sup) ==
  /\ pc' = "done"
  /\ pending' = Undefined
  /\ proc' = Val(result)
  /\ outcome' = out
  /\ diagnostics' = diagnostics \o said
  /\ version' = ver
  /\ supported' = sup
  /\ UNCHANGED <<op, execLog, prevSupported>>

\* core.error(stderr); core.setFailed(message); throw new Error(...)
ExecutionFailure(result, failedMessage, errorMessage) ==
  Finish(result, Throw(errorMessage),
         <<Diagnostic("error", <<"stderr">>), Diagnostic("setFailed", failedMessage)>>,
         version, supported)

UnsupportedWarning(text) ==
  Diagnostic("warning",
    <<"The current gradle version does not support retrieving a single property. Found version: ",
      text, ".">>)

\* `gradle --version` terminates: the rest of fetchGradleVersion and of
\* singlePropertySupport and, inside retrieveGradleProperty, the code up to the
\* await of the properties command
VersionExit ==
  \E exitCode \in ExitCodes : \E stdout \in VersionOutputs(exitCode) :
    /\ pc = "awaitVersion"
    /\ LET result == Result(exitCode, stdout)
           command == retrieveGradleCLI(op.useGradlew)
           match == MatchVersion(stdout)
           semverVersion == coerce(match.value)
           single == satisfies(semverVersion.value)
           said == IF single THEN <<>> ELSE <<UnsupportedWarning(match.value)>>
           next == Invocation(command,
                              PropertiesArgs(verifyModule(op.gradleBuildModule),
                                             single, op.property),
                              op.gradleProjectPath)
       IN  IF ExitFailed(exitCode)
           THEN ExecutionFailure(result,
                  <<"'", command, " --version' command failed!">>,
                  <<"Failed to execute '", command, " --version'">>)
           ELSE IF ~match.defined
           THEN Finish(result, Throw(<<"Failed to extract gradle version">>),
                       <<>>, version, supported)
           ELSE IF ~semverVersion.defined
           THEN Finish(result,
                       Throw(<<"Failed to parse gradle version: ", match.value>>),
                       <<>>, match, supported)
           ELSE IF op.name = "singlePropertySupport"
           THEN Finish(result, Return(single), said, match, Val(single))
           ELSE /\ pc' = "awaitProperties"
                /\ pending' = Val(next)
                /\ execLog' = Issue(execLog, next)
                /\ proc' = Undefined
                /\ version' = match
                /\ supported' = Val(single)
                /\ diagnostics' = diagnostics \o said
                /\ UNCHANGED <<op, outcome, prevSupported>>

\* `gradle <module>:dependencies` terminates
DependenciesExit ==
  \E exitCode \in ExitCodes, stdout \in ListingOutputs :
    /\ pc = "awaitDependencies"
    /\ LET result == Result(exitCode, stdout)
           command == retrieveGradleCLI(op.useGradlew)
           module == verifyModule(op.gradleBuildModule)
           configuration == op.gradleBuildConfiguration
       IN  IF configuration.defined /\ configuration.value # ""
           THEN IF ExitFailed(exitCode)
                THEN ExecutionFailure(result,
                       <<"'", command, " ", module, ":dependencies --configuration ",
                         configuration.value, "' resolution failed!">>,
                       <<"Failed to execute '", command, " ", module,
                         ":dependencies --configuration ", configuration.value, "'">>)
                ELSE Finish(result, Return(stdout),
                       <<Diagnostic("info",
                           <<"Completed retrieving the 'dependencies' for configuration '",
                             configuration.value, "' within ", "ms">>)>>,
                       version, supported)
           ELSE IF ExitFailed(exitCode)
                THEN ExecutionFailure(result,
                       <<"'", command, " ", module, ":dependencies resolution failed!">>,
                       <<"Failed to execute '", command, " ", module, ":dependencies'">>)
                ELSE Finish(result, Return(stdout),
                       <<Diagnostic("info",
                           <<"Completed retrieving the 'dependencies' within ", "ms">>)>>,
                       version, supported)

\* `gradle :buildEnvironment` terminates
BuildEnvironmentExit ==
  \E exitCode \in ExitCodes, stdout \in ListingOutputs :
    /\ pc = "awaitBuildEnvironment"
    /\ LET result == Result(exitCode, stdout)
           command == retrieveGradleCLI(op.useGradlew)
       IN  IF ExitFailed(exitCode)
           THEN ExecutionFailure(result,
                  <<"'", command, " :buildEnvironment' resolution failed!">>,
                  <<"Failed to execute '", command, " :buildEnvironment'">>)
           ELSE Finish(result, Return(stdout),
                  <<Diagnostic("info",
                      <<"Completed retrieving the 'buildEnvironment' within ", "ms">>)>>,
                  version, supported)

\* `gradle <module>:properties` terminates: the rest of retrieveGradleProperty
PropertiesExit ==
  \E exitCode \in ExitCodes : \E stdout \in PropertyOutputs(exitCode) :
    /\ pc = "awaitProperties"
    /\ LET result == Result(exitCode, stdout)
           command == retrieveGradleCLI(op.useGradlew)
           module == verifyModule(op.gradleBuildModule)
           matched == IF supported.value
                      THEN MatchSingle(stdout, op.property)
                      ELSE MatchListing(stdout, op.property)
       IN  IF ExitFailed(exitCode)
           THEN ExecutionFailure(result,
                  <<"'", command, " ", module, ":properties' retrieval failed!">>,
                  <<"Failed to execute '", command, " ", module, ":properties'">>)
           ELSE IF matched.defined
           THEN Finish(result, Return(matched), <<>>, version, supported)
           ELSE Finish(result, Return(Undefined),
                  <<Diagnostic("warning",
                      <<"Failed to retrieve the '", op.property, "' for '",
                        op.gradleBuildModule, "'">>)>>,
                  version, supported)

\* the caller takes the settled result; the locals of the call are gone.
\* prevSupported remembers the capability the finished call worked with.
Resume ==
  /\ pc = "done"
  /\ pc' = "idle"
  /\ op' = [name |-> "none"]
  /\ pending' = Undefined
  /\ execLog' = <<>>
  /\ proc' = Undefined
  /\ version' = Undefined
  /\ supported' = Undefined
  /\ outcome' = NoOutcome
  /\ diagnostics' = <<>>
  /\ prevSupported' = IF op.name \in PropertyOps THEN supported ELSE Undefined

Next ==
  \/ singlePropertySupport
  \/ retrieveGradleDependencies
  \/ retrieveGradleBuildEnvironment
  \/ retrieveGradleBuildPath
  \/ retrieveGradleProjectName
  \/ VersionExit
  \/ DependenciesExit
  \/ BuildEnvironmentExit
  \/ PropertiesExit
  \/ Resume

Spec == Init /\ [][Next]_vars

(***************************************************************************)
(* Vocabulary of the properties.                                           *)
(***************************************************************************)
Count(level) == Cardinality({k \in 1..Len(diagnostics) : diagnostics[k].level = level})

\* the call is over and was suspended last on an invocation with these args
EndedOn(args) == pc = "done" /\ proc.defined /\ proc.value.invocation.args = args

EndedOnVersion == EndedOn(<<"--version">>)

EndedOnProperties ==
  /\ pc = "done" /\ proc.defined /\ op.name \in PropertyOps
  /\ proc.value.invocation.args # <<"--version">>

IsExecutionError(o) == o.kind = "throw" /\ o.message[1] = "Failed to execute '"

IsParseError(o) ==
  /\ o.kind = "throw"
  /\ o.message[1] \in {"Failed to extract gradle version",
                       "Failed to parse gradle version: "}

\* (major, minor, patch) is at least 7.5.0
AtLeast750(t) ==
  \/ t[1] > 7
  \/ t[1] = 7 /\ t[2] > 5
  \/ t[1] = 7 /\ t[2] = 5 /\ t[3] >= 0

\* the banner block, line by line: a line ending in a dash, a line that is
\* "Gradle " and a version text, a line starting with a dash
BannerAt(lines, k) ==
  /\ k + 2 <= Len(lines)
  /\ Len(lines[k]) >= 1 /\ lines[k][Len(lines[k])] = "-"
  /\ Len(lines[k + 1]) > Len(GradleWord)
  /\ SubSeq(lines[k + 1], 1, Len(GradleWord)) = GradleWord
  /\ Len(lines[k + 2]) >= 1 /\ lines[k + 2][1] = "-"

HasBanner(stdout) ==
  \E k \in 1..Len(Split(stdout, "\n")) : BannerAt(Split(stdout, "\n"), k)

\* the version text of the first banner block
BannerVersion(stdout) ==
  LET lines == Split(stdout, "\n")
      k == Min({j \in 1..Len(lines) : BannerAt(lines, j)})
  IN  SubSeq(lines[k + 1], Len(GradleWord) + 1, Len(lines[k + 1]))

\* the well-formed banner that carries the version text v
Banner(v) == Join(<<DashLine, GradleWord \o v, DashLine>>) \o <<"\n">>

(***************************************************************************)
(* C1: whenever an invocation made by any of the four operations ends with *)
(* a non-zero exit code, the call is over at once and has failed with the  *)
(* "Failed to execute" error; it returns no value.                         *)
(***************************************************************************)
C1_NonZeroExitFails ==
  (proc.defined /\ proc.value.exitCode # 0) =>
    /\ pc = "done"
    /\ IsExecutionError(outcome)
    /\ DOMAIN outcome = {"kind", "message"}

\* the properties command of retrieveGradleProperty printed a matching line
\* and exited non-zero
C1_Witness ==
  /\ EndedOnProperties
  /\ proc.value.exitCode # 0
  /\ MatchLine(proc.value.stdout, op.property).defined
  /\ outcome.kind = "throw"

(***************************************************************************)
(* C2: for a banner version v that coerces to a semantic version,          *)
(* singlePropertySupport returns true exactly when coerce(v) >= 7.5.0, and  *)
(* otherwise returns false after exactly one warning, without throwing;    *)
(* 7.4.2 gives false, 7.5.0, 8.0 and 7.5.0-rc-1 give true.                 *)
(***************************************************************************)
C2_Expected(stdout, value) ==
  (EndedOnVersion /\ op.name = "singlePropertySupport"
     /\ proc.value.exitCode = 0 /\ proc.value.stdout = stdout)
  => outcome = Return(value)

C2_ThresholdGate ==
  /\ (EndedOnVersion /\ op.name = "singlePropertySupport"
        /\ proc.value.exitCode = 0
        /\ HasBanner(proc.value.stdout)
        /\ coerce(BannerVersion(proc.value.stdout)).defined)
     => /\ outcome.kind = "return"
        /\ outcome.value = AtLeast750(coerce(BannerVersion(proc.value.stdout)).value)
        /\ Count("warning") = (IF outcome.value THEN 0 ELSE 1)
        /\ Count("setFailed") = 0
  /\ C2_Expected(Banner(<<"7", ".", "4", ".", "2">>), FALSE)
  /\ C2_Expected(Banner(<<"7", ".", "5", ".", "0">>), TRUE)
  /\ C2_Expected(Banner(<<"8", ".", "0">>), TRUE)
  /\ C2_Expected(Banner(<<"1", "0", ".", "1">>), TRUE)
  /\ C2_Expected(Banner(<<"7", ".", "5", ".", "0", "-", "r", "c", "-", "1">>), TRUE)

\* a below-threshold banner: false, with its warning
C2_Witness ==
  /\ EndedOnVersion /\ op.name = "singlePropertySupport"
  /\ proc.value.exitCode = 0
  /\ proc.value.stdout = Banner(<<"7", ".", "4", ".", "2">>)
  /\ outcome = Return(FALSE)
  /\ Count("warning") = 1

(***************************************************************************)
(* C3: when the version command exits with 0 and its output has no banner  *)
(* block, or a banner whose version text does not coerce, the call fails   *)
(* with the extract/parse error; singlePropertySupport returns neither     *)
(* true nor false and retrieveGradleProperty has issued nothing but the    *)
(* version command.  The properties command is only ever issued for a      *)
(* version text that coerces.                                              *)
(***************************************************************************)
C3_BadBannerFails ==
  /\ (EndedOnVersion /\ proc.value.exitCode = 0
        /\ (~HasBanner(proc.value.stdout)
              \/ ~coerce(BannerVersion(proc.value.stdout)).defined))
     => /\ IsParseError(outcome)
        /\ execLog = <<proc.value.invocation>>
  /\ (op.name \in PropertyOps /\ Len(execLog) > 1)
     => (version.defined /\ coerce(version.value).defined)

\* retrieveGradleProperty stopped by a banner without its closing dashed line
C3_Witness ==
  /\ EndedOnVersion /\ op.name \in PropertyOps
  /\ proc.value.exitCode = 0
  /\ proc.value.stdout = Join(<<DashLine, GradleWord \o <<"8", ".", "0">>>>) \o <<"\n">>
  /\ IsParseError(outcome)
  /\ Len(execLog) = 1

(***************************************************************************)
(* Lines of the properties output, read without the patterns of the code.  *)
(***************************************************************************)
\* the line holds "<property>: " followed by at least one character
LineMatches(line, property) ==
  \E p \in 1..Len(line) :
    /\ HasAt(line, p, PropertyLabel(property))
    /\ Len(line) >= p + Len(PropertyLabel(property))

\* the text after the first such label, up to the end of the line
LineValue(line, property) ==
  LET p == Min({q \in 1..Len(line) :
                  /\ HasAt(line, q, PropertyLabel(property))
                  /\ Len(line) >= q + Len(PropertyLabel(property))})
  IN  SubSeq(line, p + Len(PropertyLabel(property)), Len(line))

MatchingLines(stdout, property) ==
  {k \in 1..Len(Split(stdout, "\n")) : LineMatches(Split(stdout, "\n")[k], property)}

\* retrieveGradleProperty ran its properties command to a zero exit
PropertiesSucceeded == EndedOnProperties /\ proc.value.exitCode = 0

NotFound(k) ==
  /\ diagnostics[k].level = "warning"
  /\ diagnostics[k].message[1] = "Failed to retrieve the '"

(***************************************************************************)
(* C4 as stated: in both modes, when the properties command exits with 0   *)
(* and no line matches "<property>: <value>", retrieveGradleProperty       *)
(* returns undefined after one warning, does not throw and does not mark   *)
(* the run as failed.                                                      *)
(***************************************************************************)
C4_AbsentAfterOneWarning ==
  (PropertiesSucceeded /\ MatchingLines(proc.value.stdout, op.property) = {})
  => /\ outcome = Return(Undefined)
     /\ Count("setFailed") = 0
     /\ Count("warning") = 1

(***************************************************************************)
(* C4 amended: in that case retrieveGradleProperty returns undefined, does *)
(* not throw and does not mark the run as failed; its last diagnostic is   *)
(* the one "Failed to retrieve" warning, which is the only warning in      *)
(* single-property mode and the second one in full-listing mode, where the *)
(* probe has already warned about the version.                             *)
(***************************************************************************)
C4_AbsentWithNotFoundWarning ==
  (PropertiesSucceeded /\ MatchingLines(proc.value.stdout, op.property) = {})
  => /\ outcome = Return(Undefined)
     /\ Count("setFailed") = 0
     /\ Count("error") = 0
     /\ Count("warning") = (IF supported.value THEN 1 ELSE 2)
     /\ Len(diagnostics) = Count("warning")
     /\ NotFound(Len(diagnostics))
     /\ \A k \in 1..(Len(diagnostics) - 1) : ~NotFound(k)

\* full-listing mode over an output whose only label has an empty value
C4_Witness ==
  /\ PropertiesSucceeded
  /\ ~supported.value
  /\ op.property = "name"
  /\ proc.value.stdout = <<"n", "a", "m", "e", ":", " ", "\n">>
  /\ outcome = Return(Undefined)
  /\ Count("warning") = 2

(***************************************************************************)
(* C5: in full-listing mode retrieveGradleProperty returns the value of    *)
(* the first line, from the top, that matches "<property>: <value>",       *)
(* wherever that line stands; later matching lines are ignored.            *)
(***************************************************************************)
C5_FirstMatchingLine ==
  (PropertiesSucceeded /\ ~supported.value
     /\ MatchingLines(proc.value.stdout, op.property) # {})
  => outcome =
       Return(Val(LineValue(
         Split(proc.value.stdout, "\n")[Min(MatchingLines(proc.value.stdout, op.property))],
         op.property)))

\* two matching lines with different values below a line that does not match
C5_Witness ==
  /\ PropertiesSucceeded /\ ~supported.value
  /\ \E j, k \in MatchingLines(proc.value.stdout, op.property) :
       /\ 1 < j /\ j < k
       /\ j = Min(MatchingLines(proc.value.stdout, op.property))
       /\ LineValue(Split(proc.value.stdout, "\n")[j], op.property)
            # LineValue(Split(proc.value.stdout, "\n")[k], op.property)
       /\ outcome = Return(Val(LineValue(Split(proc.value.stdout, "\n")[j], op.property)))

(***************************************************************************)
(* C6: in single-property mode, whenever the output holds a line           *)
(* "<property>: <value>" with a non-empty value, retrieveGradleProperty    *)
(* returns the text after the label up to the end of that line, whether or *)
(* not the line is the last one and whether or not a newline follows it.   *)
(***************************************************************************)
C6_SingleModeValue ==
  (PropertiesSucceeded /\ supported.value
     /\ MatchingLines(proc.value.stdout, op.property) # {})
  => outcome =
       Return(Val(LineValue(
         Split(proc.value.stdout, "\n")[Min(MatchingLines(proc.value.stdout, op.property))],
         op.property)))

(***************************************************************************)
(* C7 as stated: every operation issues exactly one process invocation per *)
(* call, and is over only after that invocation has terminated.            *)
(***************************************************************************)
C7_ExactlyOneInvocation ==
  /\ pc # "idle" => Len(execLog) >= 1
  /\ pc = "done" => (Len(execLog) = 1 /\ ~pending.defined /\ proc.defined)

(***************************************************************************)
(* C7 amended: singlePropertySupport, retrieveGradleDependencies and       *)
(* retrieveGradleBuildEnvironment issue exactly one invocation per call;   *)
(* retrieveGradleProperty issues the version command and, only when the    *)
(* probe has succeeded, one properties command after it: two invocations,  *)
(* or one when the probe fails.  A call holds no outcome while an          *)
(* invocation is pending, it is suspended on the last invocation issued,   *)
(* and no invocation is issued a second time.                              *)
(***************************************************************************)
C7_InvocationsPerCall ==
  /\ pc # "idle" =>
       Len(execLog) = (IF op.name \in PropertyOps /\ supported.defined THEN 2 ELSE 1)
  /\ pc = "done" => (~pending.defined /\ proc.defined /\ outcome.kind # "none"
                       /\ proc.value.invocation = execLog[Len(execLog)])
  /\ pc \notin {"idle", "done"} =>
       (pending.defined /\ outcome = NoOutcome /\ pending.value = execLog[Len(execLog)])
  /\ \A j, k \in 1..Len(execLog) : execLog[j] = execLog[k] => j = k

\* retrieveGradleProperty failed on its second invocation, which was not retried
C7_Witness ==
  /\ EndedOnProperties
  /\ proc.value.exitCode # 0
  /\ Len(execLog) = 2
  /\ outcome.kind = "throw"

(***************************************************************************)
(* C8: every retrieveGradleProperty call first runs the version command    *)
(* with its own command and working directory and runs the properties      *)
(* command only after that probe has succeeded; the properties command     *)
(* carries "--property <name>" exactly when the version probed in this     *)
(* call is at least 7.5.0 and the output is parsed in the mode of that     *)
(* same flag, whatever capability the call before worked with.             *)
(***************************************************************************)
C8_ProbedEveryCall ==
  (op.name \in PropertyOps) =>
    /\ execLog[1] = [command |-> IF op.useGradlew THEN "./gradlew" ELSE "gradle",
                     args |-> <<"--version">>,
                     cwd |-> op.gradleProjectPath]
    /\ Len(execLog) > 1 =>
         /\ version.defined /\ coerce(version.value).defined
         /\ LET single == AtLeast750(coerce(version.value).value)
            IN  /\ execLog[2].command = execLog[1].command
                /\ execLog[2].cwd = op.gradleProjectPath
                /\ Len(execLog[2].args) = (IF single THEN 4 ELSE 2)
                /\ execLog[2].args[2] = "-q"
                /\ single => SubSeq(execLog[2].args, 3, 4) = <<"--property", op.property>>
                /\ PropertiesSucceeded =>
                     outcome = Return(IF single
                                      THEN MatchSingle(proc.value.stdout, op.property)
                                      ELSE MatchListing(proc.value.stdout, op.property))

\* a full-listing call right after a call that worked in single-property
\* mode, over an output the two modes read differently
C8_Witness ==
  /\ PropertiesSucceeded
  /\ prevSupported = Val(TRUE)
  /\ supported = Val(FALSE)
  /\ Len(execLog[2].args) = 2
  /\ MatchSingle(proc.value.stdout, op.property)
       # MatchListing(proc.value.stdout, op.property)

(***************************************************************************)
(* C9: retrieveGradleDependencies with the configuration "" behaves as     *)
(* with the configuration undefined: both issue "--console plain           *)
(* <module>:dependencies" with no "--configuration" argument, and both     *)
(* return the stdout of a zero exit or fail with the same error.           *)
(***************************************************************************)
C9_EmptyConfigurationOmitted ==
  (op.name = "retrieveGradleDependencies"
     /\ op.gradleBuildConfiguration \in {Undefined, Val("")})
  => LET command == IF op.useGradlew THEN "./gradlew" ELSE "gradle"
         module == IF op.gradleBuildModule = ":" THEN "" ELSE op.gradleBuildModule
         task == module \o ":dependencies"
     IN  /\ execLog = <<[command |-> command,
                         args |-> <<"--console", "plain", task>>,
                         cwd |-> op.gradleProjectPath]>>
         /\ pc = "done" =>
              /\ outcome = IF proc.value.exitCode = 0
                           THEN Return(proc.value.stdout)
                           ELSE Throw(<<"Failed to execute '", command, " ",
                                        module, ":dependencies'">>)
              /\ Count("setFailed") = (IF proc.value.exitCode = 0 THEN 0 ELSE 1)

\* a finished call with the empty configuration
C9_Witness ==
  /\ pc = "done"
  /\ op.name = "retrieveGradleDependencies"
  /\ op.gradleBuildConfiguration = Val("")
  /\ outcome = Return(proc.value.stdout)
  /\ Len(proc.value.stdout) > 0

(***************************************************************************)
(* C10: the task path of the properties command (in both modes) and of the *)
(* dependencies command is ":properties" / ":dependencies" for the root    *)
(* module ":" and "<module>:properties" / "<module>:dependencies" for any  *)
(* other module.                                                           *)
(***************************************************************************)
C10_TaskPath(task) ==
  IF op.gradleBuildModule = ":" THEN ":" \o task ELSE op.gradleBuildModule \o ":" \o task

C10_RootModuleNormalized ==
  /\ (op.name \in PropertyOps /\ Len(execLog) > 1)
     => (execLog[2].args[1] = C10_TaskPath("properties")
           /\ execLog[2].args[1] # "::properties")
  /\ (op.name = "retrieveGradleDependencies")
     => (execLog[1].args[3] = C10_TaskPath("dependencies")
           /\ execLog[1].args[3] # "::dependencies")

\* the build path of the root module asked in full-listing mode
C10_Witness ==
  /\ op.name = "retrieveGradleBuildPath"
  /\ op.gradleBuildModule = ":"
  /\ Len(execLog) = 2
  /\ execLog[2].args = <<":properties", "-q">>

====
